---- MODULE Spec2Model ----
(***************************************************************************)
(* A model of the OPM technical support assistant: the intent classifier,  *)
(* the answer resolver and the response renderer of chat_engine.py, the    *)
(* conversation storage of user_model.py and the chat_submit, upload_kb    *)
(* and revert_kb handlers of app.py.                                       *)
(*                                                                         *)
(* Text is a sequence of one-character strings, so that the substring      *)
(* tests, the regular expressions and the formatted messages of the source *)
(* are computed character by character.  The emoji of the source's string  *)
(* literals are single elements written "<bulb>", "<glass>", "<tools>" and *)
(* "<chart>".                                                              *)
(***************************************************************************)
EXTENDS Integers, Sequences, FiniteSets, TLC

VARIABLES
    df,             \* chat_engine.df: the in-memory record table
    user_prompt,    \* the utterance of the turn being resolved
    history,        \* the turns handed to find_best_answer
    pc,             \* position of the sequential pipeline
    intent,         \* intent of chat_submit.generate, line 154
    answer,         \* what find_best_answer returned (or that it raised)
    prev,           \* the answer of the turn before, kept for the properties
    chunks,         \* the chunks generate_ai_response emitted
    turn,           \* number of turns resolved so far in this conversation
    kb_file,        \* content of the active spreadsheet file
    db_table,       \* content of the SQLite table knowledge_base
    backups,        \* spreadsheet contents kept under kb_backups
    replacements,   \* number of upload_kb and revert_kb calls that assigned df
    CONVERSATIONS,  \* user_model.CONVERSATIONS of the logged-in user
    conversation_id_counter,  \* Conversation.conversation_id_counter
    req             \* the chat_submit requests in flight, one per worker thread

vars == <<df, user_prompt, history, pc, intent, answer, prev, chunks, turn, kb_file,
          db_table, backups, replacements, CONVERSATIONS, conversation_id_counter, req>>

-----------------------------------------------------------------------------
(* Characters and strings *)

\* The characters of the model in code point order (str comparison, sorted()).
CharOrder ==
    <<"\t", "\n", " ", "!", "#", "'", "(", ")", "*", ",", "-", ".", "/",
      "0", "1", "2", "3", "4", "5", "6", "7", "8", "9", ":", "<", ">", "?",
      "A", "B", "C", "D", "E", "F", "G", "H", "I", "J", "K", "L", "M",
      "N", "O", "P", "Q", "R", "S", "T", "U", "V", "W", "X", "Y", "Z",
      "a", "b", "c", "d", "e", "f", "g", "h", "i", "j", "k", "l", "m",
      "n", "o", "p", "q", "r", "s", "t", "u", "v", "w", "x", "y", "z", "|",
      "<glass>", "<bulb>", "<chart>", "<tools>">>

Ord(c) == CHOOSE i \in 1..Len(CharOrder) : CharOrder[i] = c

Digits == {"0", "1", "2", "3", "4", "5", "6", "7", "8", "9"}

UpperCase == <<"A","B","C","D","E","F","G","H","I","J","K","L","M","N","O","P","Q","R","S","T","U","V","W","X","Y","Z">>

LowerCase == <<"a","b","c","d","e","f","g","h","i","j","k","l","m","n","o","p","q","r","s","t","u","v","w","x","y","z">>

\* str.isspace for the characters of the model
IsSpace(c) == c \in {" ", "\n", "\t"}

\* \w of the re module: letters, digits and underscore
IsWordChar(c) ==
    \/ c \in Digits
    \/ \E i \in 1..26 : c = UpperCase[i] \/ c = LowerCase[i]

LowerChar(c) ==
    IF \E i \in 1..26 : UpperCase[i] = c
    THEN LowerCase[CHOOSE i \in 1..26 : UpperCase[i] = c]
    ELSE c

UpperChar(c) ==
    IF \E i \in 1..26 : LowerCase[i] = c
    THEN UpperCase[CHOOSE i \in 1..26 : LowerCase[i] = c]
    ELSE c

\* str.lower
Lower(s) == [i \in 1..Len(s) |-> LowerChar(s[i])]

\* str.upper
Upper(s) == [i \in 1..Len(s) |-> UpperChar(s[i])]

\* the first index from i on that holds no space, Len(s) + 1 if none does
RECURSIVE SkipSpaces(_, _)
SkipSpaces(s, i) ==
    IF i <= Len(s) /\ IsSpace(s[i]) THEN SkipSpaces(s, i + 1) ELSE i

\* the last index up to i that holds no space, 0 if none does
RECURSIVE SkipSpacesBack(_, _)
SkipSpacesBack(s, i) ==
    IF i >= 1 /\ IsSpace(s[i]) THEN SkipSpacesBack(s, i - 1) ELSE i

\* str.strip
Strip(s) ==
    LET lo == SkipSpaces(s, 1)
        hi == SkipSpacesBack(s, Len(s))
    IN  IF lo > hi THEN <<>> ELSE SubSeq(s, lo, hi)

\* s[i:].startswith(p), i counted from 1
StartsWithAt(s, i, p) ==
    /\ i + Len(p) - 1 <= Len(s)
    /\ \A k \in 1..Len(p) : s[i + k - 1] = p[k]

\* p in s
Contains(s, p) == \E i \in 1..(Len(s) + 1) : StartsWithAt(s, i, p)

\* the end of the run of digits that starts at i: the first index past it
RECURSIVE DigitRunEnd(_, _)
DigitRunEnd(s, i) ==
    IF i <= Len(s) /\ s[i] \in Digits THEN DigitRunEnd(s, i + 1) ELSE i

\* "sep".join(parts)
RECURSIVE Join(_, _)
Join(sep, parts) ==
    IF parts = <<>> THEN <<>>
    ELSE IF Len(parts) = 1 THEN parts[1]
    ELSE parts[1] \o sep \o Join(sep, Tail(parts))

\* a < b for str: lexicographic on code points
RECURSIVE StrLess(_, _)
StrLess(a, b) ==
    IF b = <<>> THEN FALSE
    ELSE IF a = <<>> THEN TRUE
    ELSE IF a[1] # b[1] THEN Ord(a[1]) < Ord(b[1])
    ELSE StrLess(Tail(a), Tail(b))

\* sorted(series.unique()): the distinct values in ascending order
Sorted(values) ==
    LET distinct == {values[i] : i \in 1..Len(values)}
        n == Cardinality(distinct)
    IN  CHOOSE q \in [1..n -> distinct] :
            /\ \A i, j \in 1..n : i < j => StrLess(q[i], q[j])

-----------------------------------------------------------------------------
(* Text Normalizer: clean_to_digits, format_clean_description *)

\* re.sub(r'\D', '', s)
RECURSIVE OnlyDigits(_)
OnlyDigits(s) ==
    IF s = <<>> THEN <<>>
    ELSE IF s[1] \in Digits THEN <<s[1]>> \o OnlyDigits(Tail(s))
    ELSE OnlyDigits(Tail(s))

\* str(val).split('.')[0]
BeforeDot(s) ==
    LET dots == {i \in 1..Len(s) : s[i] = "."}
    IN  IF dots = {} THEN s
        ELSE SubSeq(s, 1, (CHOOSE i \in dots : \A j \in dots : i <= j) - 1)

\* the cell pandas reads as NaN
NaN == <<"<nan>">>

\* clean_to_digits of a spreadsheet cell, given as NaN or as the text str(val)
clean_to_digits(val) ==
    IF val = NaN \/ Lower(val) = <<"n","a","n">> \/ Strip(val) = <<>> THEN <<>>
    ELSE OnlyDigits(BeforeDot(val))

\* The first index at or after i where r'\d+:' matches, 0 when there is none.
RECURSIVE LabelStart(_, _)
LabelStart(s, i) ==
    IF i > Len(s) THEN 0
    ELSE IF s[i] \in Digits
            /\ DigitRunEnd(s, i) <= Len(s) /\ s[DigitRunEnd(s, i)] = ":"
         THEN i
         ELSE LabelStart(s, i + 1)

\* re.split(r'(\d+:)', text): the pieces between matches and the matches
RECURSIVE ReSplitLabels(_)
ReSplitLabels(s) ==
    LET i == LabelStart(s, 1)
        e == DigitRunEnd(s, i)
    IN  IF i = 0 THEN <<s>>
        ELSE <<SubSeq(s, 1, i - 1), SubSeq(s, i, e)>>
             \o ReSplitLabels(SubSeq(s, e + 1, Len(s)))

format_clean_description(text0) ==
    LET text == Strip(text0)
        parts == ReSplitLabels(text)
        n == (Len(parts) - 1) \div 2
        formatted_list ==
            [k \in 1..n |-> parts[2 * k] \o <<" ">> \o Strip(parts[2 * k + 1])]
    IN  IF Len(parts) <= 1 THEN text
        ELSE Join(<<" ","<","b","r",">"," ">>, formatted_list)

-----------------------------------------------------------------------------
(* Intent Classifier *)

ConfirmationWords ==
    {<<"y","e","s">>, <<"y">>, <<"y","e","p">>, <<"o","k">>, <<"o","k","a","y">>, <<"s","h","o","w">>, <<"s","h","o","w"," ","m","e">>,
     <<"g","o","t"," ","i","t">>, <<"c","o","r","r","e","c","t">>}

ExitWords == {<<"n","o">>, <<"n">>, <<"n","o","p","e">>, <<"s","t","o","p">>, <<"e","x","i","t">>, <<"c","a","n","c","e","l">>}

NameQueryPhrases == {<<"s","e","t","t","i","n","g"," ","n","a","m","e">>, <<"n","a","m","e"," ","o","f">>, <<"w","h","a","t"," ","i","s"," ","t","h","e"," ","n","a","m","e">>}

CodeQueryPhrases == {<<"a","c","c","e","s","s"," ","c","o","d","e"," ","f","o","r">>, <<"c","o","d","e"," ","f","o","r">>, <<"w","h","a","t"," ","i","s"," ","t","h","e"," ","c","o","d","e">>}

ConversationalWords == {<<"h","i">>, <<"h","e","l","l","o">>, <<"h","e","y">>, <<"t","h","a","n","k","s">>, <<"h","e","l","p">>}

ContainsAny(s, phrases) == \E p \in phrases : Contains(s, p)

\* the classifier with rules 3 and 4 exchanged
detect_intent_code_first(text) ==
    LET clean == Strip(Lower(text))
    IN  IF clean \in ConfirmationWords THEN "CONFIRMATION"
        ELSE IF clean \in ExitWords THEN "EXIT"
        ELSE IF ContainsAny(clean, CodeQueryPhrases) THEN "CODE_QUERY"
        ELSE IF ContainsAny(clean, NameQueryPhrases) THEN "NAME_QUERY"
        ELSE IF ContainsAny(clean, ConversationalWords) THEN "CONVERSATIONAL"
        ELSE "TECHNICAL"

detect_intent(text) ==
    LET clean == Strip(Lower(text))
    IN  IF clean \in ConfirmationWords THEN "CONFIRMATION"
        ELSE IF clean \in ExitWords THEN "EXIT"
        ELSE IF ContainsAny(clean, NameQueryPhrases) THEN "NAME_QUERY"
        ELSE IF ContainsAny(clean, CodeQueryPhrases) THEN "CODE_QUERY"
        ELSE IF ContainsAny(clean, ConversationalWords) THEN "CONVERSATIONAL"
        ELSE "TECHNICAL"

-----------------------------------------------------------------------------
(* Record Store: a data frame is its rows in order; pd.DataFrame() has no   *)
(* columns.  A row is [code, name, sub, desc], the four columns CODE_COL,  *)
(* NAME_COL, SUB_CODE_COL and DESCRIPTION_COL.                             *)

\* pd.DataFrame(): what load_database returns when the table cannot be read
EmptyFrame == [columns |-> FALSE, rows |-> <<>>]

Frame(rows) == [columns |-> TRUE, rows |-> rows]

\* DataFrame.empty
IsEmpty(frame) == frame.rows = <<>>

\* the rows at the positions of keep, in order
RECURSIVE RowsAt(_, _, _)
RowsAt(rows, keep, n) ==
    IF n = 0 THEN <<>>
    ELSE IF n \in keep THEN Append(RowsAt(rows, keep, n - 1), rows[n])
    ELSE RowsAt(rows, keep, n - 1)

\* a boolean mask is the set of the positions where it is true
\* series == code, on the column of codes
CodeMask(rows, code) == {i \in 1..Len(rows) : rows[i].code = code}

\* series == sub, on the column of sub codes
SubMask(rows, sub) == {i \in 1..Len(rows) : rows[i].sub = sub}

\* series.str.lower() == search_term, on the column of names
NameMask(rows, search_term) ==
    {i \in 1..Len(rows) : Lower(rows[i].name) = search_term}

\* rows[mask]: the rows at the positions of the mask, in order
SelectRows(rows, mask) ==
    LET keep == mask
    IN  RowsAt(rows, keep, Len(rows))

\* df[<mask computed from df>] loads the global df twice: outer is the frame
\* that is indexed, inner the frame the boolean mask is computed from.
\* Reading a column of a frame without columns raises KeyError; a mask
\* shorter than the frame it indexes raises IndexingError.
FilterRaises(outer, inner) ==
    ~inner.columns \/ Len(outer.rows) > Len(inner.rows)

\* the rows of outer at the positions where the mask is true
Filter(outer, mask) == SelectRows(outer.rows, mask)

\* df[df[CODE_COL] == code]
FilterByCode(outer, inner, code) == Filter(outer, CodeMask(inner.rows, code))

\* df[df[NAME_COL].str.lower() == search_term]
FilterByName(outer, inner, search_term) ==
    Filter(outer, NameMask(inner.rows, search_term))

\* re.compile of a pattern made of letters, digits, spaces and parentheses
\* succeeds when the parentheses balance.
RECURSIVE ParensBalance(_, _)
ParensBalance(s, depth) ==
    IF s = <<>> THEN depth = 0
    ELSE IF s[1] = "(" THEN ParensBalance(Tail(s), depth + 1)
    ELSE IF s[1] = ")" THEN depth > 0 /\ ParensBalance(Tail(s), depth - 1)
    ELSE ParensBalance(Tail(s), depth)

RegexCompiles(pattern) == ParensBalance(pattern, 0)

\* a group of such a pattern matches what its content matches
RECURSIVE WithoutParens(_)
WithoutParens(s) ==
    IF s = <<>> THEN <<>>
    ELSE IF s[1] \in {"(", ")"} THEN WithoutParens(Tail(s))
    ELSE <<s[1]>> \o WithoutParens(Tail(s))

\* df[df[NAME_COL].str.lower().str.contains(search_term, na=False)], where
\* search_term is a regular expression that compiles
NameContainsMask(rows, search_term) ==
    {i \in 1..Len(rows) :
        Contains(Lower(rows[i].name), WithoutParens(search_term))}

FilterByNameContains(outer, inner, search_term) ==
    Filter(outer, NameContainsMask(inner.rows, search_term))

-----------------------------------------------------------------------------
(* Answer Resolver *)

\* the alternatives of the pattern of line 121, in its order
Boilerplate ==
    <<<<"w","h","a","t"," ","i","s"," ","t","h","e">>, <<"a","c","c","e","s","s"," ","c","o","d","e"," ","f","o","r">>, <<"c","o","d","e"," ","f","o","r">>, <<"s","e","t","t","i","n","g"," ","n","a","m","e"," ","o","f">>,
      <<"n","a","m","e"," ","o","f"," ","c","o","d","e">>, <<"t","h","e"," ","c","o","d","e"," ","f","o","r">>, <<"s","e","t","t","i","n","g"," ","n","a","m","e"," ","f","o","r">>>>

\* re.sub(Boilerplate, '', s): at each position the first alternative that
\* matches is removed and the scan goes on after it
RECURSIVE StripBoilerplate(_)
StripBoilerplate(s) ==
    LET hits == {k \in 1..Len(Boilerplate) : StartsWithAt(s, 1, Boilerplate[k])}
        first == CHOOSE k \in hits : \A j \in hits : k <= j
    IN  IF s = <<>> THEN <<>>
        ELSE IF hits # {}
        THEN StripBoilerplate(SubSeq(s, Len(Boilerplate[first]) + 1, Len(s)))
        ELSE <<s[1]>> \o StripBoilerplate(Tail(s))

SearchTerm(user_text) == Strip(StripBoilerplate(user_text))

\* the lengths \d{4,5} accepts
MinCodeDigits == 4

MaxCodeDigits == 5

\* re.findall(r'\b\d{4,5}\b', s) from index i on
RECURSIVE FindCodes(_, _)
FindCodes(s, i) ==
    LET e == DigitRunEnd(s, i)
        matches ==
            /\ s[i] \in Digits
            /\ (i = 1 \/ ~IsWordChar(s[i - 1]))
            /\ e - i >= MinCodeDigits /\ e - i <= MaxCodeDigits
            /\ (e > Len(s) \/ ~IsWordChar(s[e]))
    IN  IF i > Len(s) THEN <<>>
        ELSE IF matches THEN <<SubSeq(s, i, e - 1)>> \o FindCodes(s, e)
        ELSE FindCodes(s, i + 1)

\* the first index at or after i where r'\(Code: (\d+)\)' matches, else 0
RECURSIVE CodeTagStart(_, _)
CodeTagStart(s, i) ==
    LET d == i + 7
        e == DigitRunEnd(s, d)
    IN  IF i > Len(s) THEN 0
        ELSE IF /\ StartsWithAt(s, i, <<"(","C","o","d","e",":"," ">>)
                /\ e > d
                /\ e <= Len(s) /\ s[e] = ")"
        THEN i
        ELSE CodeTagStart(s, i + 1)

\* re.search(r'\(Code: (\d+)\)', last_msg): <<>> for no match, else <<group 1>>
CodeMatch(last_msg) ==
    LET i == CodeTagStart(last_msg, 1)
    IN  IF i = 0 THEN <<>>
        ELSE <<SubSeq(last_msg, i + 7, DigitRunEnd(last_msg, i + 7) - 1)>>

SubCodeOfferMarker == <<"k","n","o","w"," ","t","h","e"," ","s","u","b"," ","c","o","d","e">>

ProcedureOfferMarker == <<"h","o","w"," ","t","o"," ","s","e","t"," ","t","h","e"," ","0","8"," ","c","o","d","e">>

Bulb == <<"<bulb>">>

SubLabel(sub) == IF sub = <<"-">> THEN <<"N","A">> ELSE sub

\* the table of lines 106-109 and 173-176
SubCodeTable(rows) ==
    Join(<<"\n">>,
         <<<<"|"," ","S","u","b","-","C","o","d","e"," ","|"," ","D","e","s","c","r","i","p","t","i","o","n"," ","/"," ","V","a","l","u","e","s"," ","|">>, <<"|"," ",":","-","-","-"," ","|"," ",":","-","-","-"," ","|">>>>
         \o [i \in 1..Len(rows) |->
               <<"|"," ">> \o SubLabel(rows[i].sub) \o <<" ","|"," ">>
               \o format_clean_description(rows[i].desc) \o <<" ","|">>])

\* rows.drop_duplicates(subset=[SUB_CODE_COL], keep='first')
RECURSIVE DropDuplicateSubs(_)
DropDuplicateSubs(rows) ==
    IF rows = <<>> THEN <<>>
    ELSE LET rest == DropDuplicateSubs(SubSeq(rows, 1, Len(rows) - 1))
             last == rows[Len(rows)]
         IN  IF \E i \in 1..Len(rest) : rest[i].sub = last.sub
             THEN rest ELSE Append(rest, last)

\* rows.drop_duplicates(subset=[CODE_COL, NAME_COL])[[CODE_COL, NAME_COL]]
RECURSIVE MatchList(_)
MatchList(rows) ==
    IF rows = <<>> THEN <<>>
    ELSE LET rest == MatchList(SubSeq(rows, 1, Len(rows) - 1))
             last == [code |-> rows[Len(rows)].code, name |-> rows[Len(rows)].name]
         IN  IF \E i \in 1..Len(rest) : rest[i] = last
             THEN rest ELSE Append(rest, last)

\* the table of lines 150-152
RECURSIVE ListRows(_)
ListRows(match_list) ==
    IF match_list = <<>> THEN <<>>
    ELSE <<"|"," ">> \o match_list[1].code \o <<" ","|"," ">> \o match_list[1].name \o <<" ","|","\n">>
         \o ListRows(Tail(match_list))

ListTable(match_list) ==
    <<"|"," ","A","c","c","e","s","s"," ","C","o","d","e"," ","|"," ","S","e","t","t","i","n","g"," ","N","a","m","e"," ","|","\n","|"," ",":","-","-","-"," ","|"," ",":","-","-","-"," ","|","\n">> \o ListRows(match_list)

Codes(rows) == [i \in 1..Len(rows) |-> rows[i].code]

Subs(rows) == [i \in 1..Len(rows) |-> rows[i].sub]

\* the table of lines 157-167
CompareTable(rows, c1, c2) ==
    LET n1 == SelectRows(rows, CodeMask(rows, c1))[1].name
        n2 == SelectRows(rows, CodeMask(rows, c2))[1].name
        all_subs == Sorted(Subs(rows))
        Cell(c, sub) ==
            LET v == SelectRows(rows, CodeMask(rows, c) \cap SubMask(rows, sub))
            IN  IF v # <<>> THEN format_clean_description(v[1].desc) ELSE <<"-">>
    IN  Join(<<"\n">>,
             <<<<"|"," ","S","u","b"," ","|"," ">> \o c1 \o <<" ","(">> \o n1 \o <<")"," ","|"," ">>
                 \o c2 \o <<" ","(">> \o n2 \o <<")"," ","|">>,
               <<"|"," ",":","-","-","-"," ","|"," ",":","-","-","-"," ","|"," ",":","-","-","-"," ","|">>>>
             \o [i \in 1..Len(all_subs) |->
                   <<"|"," ">> \o SubLabel(all_subs[i]) \o <<" ","|"," ">> \o Cell(c1, all_subs[i])
                   \o <<" ","|"," ">> \o Cell(c2, all_subs[i]) \o <<" ","|">>])

\* the dict of a descriptor; "{}" is the dict with no mode
EmptyDict ==
    [mode |-> "NONE", name |-> <<>>, code |-> <<>>, table |-> <<>>,
     query |-> <<>>, content |-> <<>>]

\* what a call of find_best_answer comes to: the tuple it returns (match_found,
\* data_str, status; the second member is always ""), or an exception.  rows is
\* the local rows when the call ends, searches counts the filters of df it
\* ran and reads the loads of the global df whose value it used.
Returned(match_found, data, status, rows, searches) ==
    [raised |-> FALSE, match_found |-> match_found, data |-> data,
     status |-> status, rows |-> rows, searches |-> searches,
     reads |-> 1 + 2 * searches]

Raised(searches) ==
    [raised |-> TRUE, match_found |-> FALSE, data |-> EmptyDict,
     status |-> "NONE", rows |-> <<>>, searches |-> searches,
     reads |-> 1 + 2 * searches]

\* the shapes with LIST taken from two codes on
ProcessRows_list_from_two(rows, search_term, searches) ==
    LET unique_codes == Sorted(Codes(rows))
        single == DropDuplicateSubs(rows)
    IN  IF rows = <<>>
        THEN Returned(TRUE, [EmptyDict EXCEPT !.mode = "NOT_FOUND",
                                              !.query = search_term],
                      "DATA_MISSING", rows, searches)
        ELSE IF Len(unique_codes) >= 2
        THEN Returned(TRUE, [EmptyDict EXCEPT !.mode = "LIST",
                                              !.query = Upper(search_term),
                                              !.content = ListTable(MatchList(rows))],
                      "READY", rows, searches)
        ELSE Returned(TRUE, [EmptyDict EXCEPT !.mode = "SINGLE",
                                              !.name = single[1].name,
                                              !.code = single[1].code,
                                              !.table = SubCodeTable(single)],
                      "READY", single, searches)

\* lines 143-177: the shape of the answer for the rows found
ProcessRows(rows, search_term, searches) ==
    LET unique_codes == Sorted(Codes(rows))
        single == DropDuplicateSubs(rows)
    IN  IF rows = <<>>
        THEN Returned(TRUE, [EmptyDict EXCEPT !.mode = "NOT_FOUND",
                                              !.query = search_term],
                      "DATA_MISSING", rows, searches)
        ELSE IF Len(unique_codes) > 2
        THEN Returned(TRUE, [EmptyDict EXCEPT !.mode = "LIST",
                                              !.query = Upper(search_term),
                                              !.content = ListTable(MatchList(rows))],
                      "READY", rows, searches)
        ELSE IF Len(unique_codes) = 2
        THEN Returned(TRUE, [EmptyDict EXCEPT !.mode = "COMPARE",
                                              !.query = Upper(search_term),
                                              !.table = CompareTable(rows, unique_codes[1],
                                                                     unique_codes[2])],
                      "READY", rows, searches)
        ELSE Returned(TRUE, [EmptyDict EXCEPT !.mode = "SINGLE",
                                              !.name = single[1].name,
                                              !.code = single[1].code,
                                              !.table = SubCodeTable(single)],
                      "READY", single, searches)

NameOnly(name, code, rows, searches) ==
    Returned(TRUE, [EmptyDict EXCEPT !.mode = "NAME_ONLY", !.name = name, !.code = code],
             "READY", rows, searches)

\* the confirmation branch with the second marker test always true (the
\* literal tested for truth instead of for containment)
Confirmation_truthy_marker(fr, hist) ==
    LET last_msg == hist[Len(hist)].content
        code_match == CodeMatch(last_msg)
        code == code_match[1]
        rows == FilterByCode(fr[2], fr[3], code)
    IN  IF hist # <<>> /\ Contains(last_msg, SubCodeOfferMarker) /\ code_match # <<>>
        THEN IF FilterRaises(fr[2], fr[3]) THEN Raised(1)
             ELSE Returned(TRUE, [EmptyDict EXCEPT !.mode = "SUB_TABLE",
                                                   !.table = SubCodeTable(rows),
                                                   !.code = code],
                           "READY", rows, 1)
        ELSE IF hist # <<>>
        THEN Returned(TRUE, EmptyDict, "SHOW_PROCEDURE", <<>>, 0)
        ELSE Returned(FALSE, EmptyDict, "NONE", <<>>, 0)

\* lines 97-118; line 105 loads df as fr[2] and fr[3]
Confirmation(fr, hist) ==
    LET last_msg == hist[Len(hist)].content
        code_match == CodeMatch(last_msg)
        code == code_match[1]
        rows == FilterByCode(fr[2], fr[3], code)
    IN  IF hist # <<>> /\ Contains(last_msg, SubCodeOfferMarker) /\ code_match # <<>>
        THEN IF FilterRaises(fr[2], fr[3]) THEN Raised(1)
             ELSE Returned(TRUE, [EmptyDict EXCEPT !.mode = "SUB_TABLE",
                                                   !.table = SubCodeTable(rows),
                                                   !.code = code],
                           "READY", rows, 1)
        ELSE IF hist # <<>> /\ (\/ Contains(last_msg, ProcedureOfferMarker)
                                \/ Contains(last_msg, Bulb))
        THEN Returned(TRUE, EmptyDict, "SHOW_PROCEDURE", <<>>, 0)
        ELSE Returned(FALSE, EmptyDict, "NONE", <<>>, 0)

\* lines 121-177; line 130 or 135 loads df as fr[2] and fr[3], line 137 as
\* fr[4] and fr[5]
Search(fr, user_text, intent_) ==
    LET search_term == SearchTerm(user_text)
        all_codes == FindCodes(search_term, 1)
        by_code == FilterByCode(fr[2], fr[3], all_codes[1])
        exact == FilterByName(fr[2], fr[3], search_term)
        partial == FilterByNameContains(fr[4], fr[5], search_term)
    IN  IF Len(search_term) < 2 \/ search_term = <<"o","k">>
        THEN Returned(FALSE, EmptyDict, "NONE", <<>>, 0)
        ELSE IF FilterRaises(fr[2], fr[3]) THEN Raised(1)
        ELSE IF all_codes # <<>>
        THEN IF intent_ = "NAME_QUERY" /\ by_code # <<>>
             THEN NameOnly(by_code[1].name, all_codes[1], by_code, 1)
             ELSE ProcessRows(by_code, search_term, 1)
        ELSE IF exact # <<>>
        THEN IF intent_ = "CODE_QUERY"
             THEN NameOnly(exact[1].name, exact[1].code, exact, 1)
             ELSE ProcessRows(exact, search_term, 1)
        ELSE IF FilterRaises(fr[4], fr[5]) \/ ~RegexCompiles(search_term)
        THEN Raised(2)
        ELSE IF intent_ = "CODE_QUERY" /\ partial # <<>>
        THEN NameOnly(partial[1].name, partial[1].code, partial, 2)
        ELSE ProcessRows(partial, search_term, 2)

\* find_best_answer, where fr lists the frames the global df names at the
\* loads of the call: fr[1] at line 83, the others as said above
Resolve(fr, prompt, hist) ==
    LET user_text == Strip(Lower(prompt))
        intent_ == detect_intent(user_text)
    IN  IF IsEmpty(fr[1])
        THEN Returned(TRUE, [EmptyDict EXCEPT !.mode = "NOT_FOUND"], "DATA_MISSING",
                      <<>>, 0)
        ELSE IF intent_ = "EXIT"
        THEN Returned(TRUE, [EmptyDict EXCEPT !.mode = "EXIT"], "READY", <<>>, 0)
        ELSE IF intent_ = "CONVERSATIONAL"
        THEN Returned(FALSE, EmptyDict, "NONE", <<>>, 0)
        ELSE IF intent_ = "CONFIRMATION"
        THEN Confirmation(fr, hist)
        ELSE Search(fr, user_text, intent_)

\* find_best_answer while no other thread assigns df
find_best_answer(table, prompt, hist) ==
    Resolve(<<table, table, table, table, table>>, prompt, hist)

-----------------------------------------------------------------------------
(* Response Renderer *)

CouldntFindMessage ==
    <<"<glass>"," ","I"," ","c","o","u","l","d","n","'","t"," ","f","i","n","d"," ","a","n","y"," ","t","e","c","h","n","i","c","a","l"," ","d","a","t","a"," ","f","o","r"," ","t","h","a","t","."," ","P","l","e","a","s","e"," ","c","h","e","c","k"," ","t","h","e"," ","s","p","e","l","l","i","n","g"," ","o","r"," ","t","r","y"," ","t","h","e"," ","A","c","c","e","s","s"," ","C","o","d","e",".">>

ProcedureText ==
    <<"#","#","#"," ","<tools>"," ","0","8"," ","S","e","r","v","i","c","e"," ","M","o","d","e"," ","P","r","o","c","e","d","u","r","e","\n","\n","1","."," ","G","o"," ","t","o"," ","*","*","U","s","e","r"," ","F","u","n","c","t","i","o","n","*","*"," ","-",">"," ","*","*","S","e","t","t","i","n","g"," ","I","c","o","n","*","*",".","\n","2","."," ","E","n","t","e","r"," ","*","*","P","a","s","s","w","o","r","d","*","*"," ","-",">"," ","S","e","l","e","c","t"," ","*","*","0","8"," ","C","o","d","e","*","*",".","\n","3","."," ","E","n","t","e","r"," ","t","h","e"," ","*","*","0","8"," ","C","o","d","e","*","*"," ","-",">"," ","P","r","e","s","s"," ","*","*","E","n","t","e","r","*","*",".","\n","4","."," ","E","n","t","e","r"," ","*","*","S","u","b"," ","C","o","d","e","*","*"," ","-",">"," ","*","*","E","n","t","e","r","*","*",".","\n","5","."," ","E","n","t","e","r"," ","*","*","V","a","l","u","e","*","*"," ","-",">"," ","*","*","E","n","t","e","r","*","*"," ","t","o"," ","s","a","v","e",".">>

ExitMessage == <<"U","n","d","e","r","s","t","o","o","d","."," ","L","e","t"," ","m","e"," ","k","n","o","w"," ","i","f"," ","y","o","u"," ","n","e","e","d"," ","h","e","l","p"," ","w","i","t","h"," ","o","t","h","e","r"," ","c","o","d","e","s","!">>

GreetingMessage == <<"H","e","l","l","o","!"," ","I"," ","a","m"," ","y","o","u","r"," ","T","e","c","h","n","i","c","a","l"," ","A","s","s","i","s","t","a","n","t","."," ","H","o","w"," ","c","a","n"," ","I"," ","h","e","l","p"," ","y","o","u"," ","t","o","d","a","y","?">>

SubCodeOffer(code) ==
    <<"\n","\n"," ","<bulb>"," ","D","o"," ","y","o","u"," ","w","a","n","t"," ","t","o"," ","k","n","o","w"," ","t","h","e"," ","s","u","b"," ","c","o","d","e"," ","f","o","r"," ","t","h","a","t","?"," ","(","C","o","d","e",":"," ">> \o code \o <<")">>

\* lines 195-200
RenderNameOnly(prompt, info) ==
    IF detect_intent(prompt) = "NAME_QUERY"
    THEN <<"T","h","e"," ","s","e","t","t","i","n","g"," ","n","a","m","e"," ","f","o","r"," ","*","*">> \o info.code \o <<"*","*"," ","i","s"," ","*","*">> \o info.name
         \o <<"*","*",".">> \o SubCodeOffer(info.code)
    ELSE <<"T","h","e"," ","A","c","c","e","s","s"," ","C","o","d","e"," ","f","o","r"," ","*","*">> \o info.name \o <<"*","*"," ","i","s"," ","*","*">> \o info.code
         \o <<"*","*",".">> \o SubCodeOffer(info.code)

\* lines 188-215: the message for a decoded descriptor.  ast.literal_eval
\* decodes every dict find_best_answer writes with str(), whose values are
\* all str, so the except branch of line 216 is not taken.
RenderMode(prompt, info) ==
    IF info.mode = "EXIT" THEN ExitMessage
    ELSE IF info.mode = "NAME_ONLY" THEN RenderNameOnly(prompt, info)
    ELSE IF info.mode = "SUB_TABLE"
    THEN <<"H","e","r","e"," ","a","r","e"," ","t","h","e"," ","s","u","b"," ","c","o","d","e","s"," ","f","o","r"," ","c","o","d","e"," ","*","*">> \o info.code \o <<"*","*",":","\n","\n">>
         \o info.table \o <<"\n","\n"," ","<bulb>"," ","D","o"," ","y","o","u"," ","w","a","n","t"," ","t","o"," ","k","n","o","w"," ","h","o","w"," ","t","o"," ","s","e","t"," ","t","h","e"," ","0","8"," ","c","o","d","e","?">>
    ELSE IF info.mode = "SINGLE"
    THEN <<"T","e","c","h","n","i","c","a","l"," ","R","e","c","o","r","d"," ","f","o","r"," ","*","*">> \o info.name \o <<"*","*"," ","(","C","o","d","e",":"," ">> \o info.code
         \o <<")","\n","\n">> \o info.table
         \o <<"\n","\n","<bulb>"," ","*","*","S","u","g","g","e","s","t","i","o","n",":","*","*"," ","T","y","p","e"," ","*","*","Y","e","s","*","*"," ","t","o"," ","s","e","e"," ","t","h","e"," ","0","8"," ","p","r","o","c","e","d","u","r","e",".">>
    ELSE IF info.mode = "LIST"
    THEN <<"I"," ","f","o","u","n","d"," ","s","e","v","e","r","a","l"," ","e","n","t","r","i","e","s"," ","f","o","r"," ","*","*">> \o info.query \o <<"*","*",":","\n","\n">>
         \o info.content
         \o <<"\n","\n","<bulb>"," ","P","l","e","a","s","e"," ","t","y","p","e"," ","t","h","e"," ","s","p","e","c","i","f","i","c"," ","*","*","A","c","c","e","s","s"," ","C","o","d","e","*","*"," ","y","o","u"," ","n","e","e","d",".">>
    ELSE IF info.mode = "COMPARE"
    THEN <<"#","#","#"," ","<chart>"," ","S","i","d","e","-","b","y","-","S","i","d","e"," ","C","o","m","p","a","r","i","s","o","n",":"," ">> \o info.query \o <<"\n","\n">>
         \o info.table \o <<"\n","\n","<bulb>"," ","*","*","T","i","p",":","*","*"," ","U","s","e"," ","t","h","e","s","e"," ","t","o"," ","c","h","e","c","k"," ","s","t","a","t","e"," ","d","i","f","f","e","r","e","n","c","e","s",".">>
    ELSE GreetingMessage

\* the renderer without the status test of line 180
generate_ai_response_no_status(prompt, data, status) ==
    IF status = "SHOW_PROCEDURE" THEN <<ProcedureText>>
    ELSE <<RenderMode(prompt, data)>>

\* generate_ai_response: the chunks it yields, in order
generate_ai_response(prompt, data, status) ==
    IF status = "DATA_MISSING" THEN <<CouldntFindMessage>>
    ELSE IF status = "SHOW_PROCEDURE" THEN <<ProcedureText>>
    ELSE <<RenderMode(prompt, data)>>

\* full_resp of chat_submit.generate: the chunks concatenated in order
RECURSIVE Concat(_)
Concat(cs) == IF cs = <<>> THEN <<>> ELSE cs[1] \o Concat(Tail(cs))

Message(role, content) == [role |-> role, content |-> content]

-----------------------------------------------------------------------------
(* The inputs of the model *)

\* the longest table the model loads
MaxRows == 3

\* the turns of one conversation the pipeline resolves
MaxTurns == 2

Row(code, name, sub, desc) == [code |-> code, name |-> name, sub |-> sub, desc |-> desc]

\* rows of the spreadsheets: digit codes (one blank, one of three digits),
\* names, "-" for no sub code, "No data" for no description
StoreRows ==
    {Row(<<"9","0","0","0">>, <<"F","a","x"," ","A">>, <<"-">>, <<"0",":"," ","o","f","f"," ","1",":"," ","o","n">>),
     Row(<<"9","0","0","0">>, <<"F","a","x"," ","A">>, <<"1">>, <<"N","o"," ","d","a","t","a">>),
     Row(<<"1","0","0","0">>, <<"F","a","x"," ","B">>, <<"1">>, <<"2",":"," ","l","o","w">>),
     Row(<<"6","2","1">>, <<"F","a","x"," ","C">>, <<"-">>, <<"N","o"," ","d","a","t","a">>),
     Row(<<>>, <<"N","e","t">>, <<"2">>, <<"N","o"," ","d","a","t","a">>)}

\* the tables: every arrangement of up to MaxRows distinct rows
Tables ==
    UNION {{t \in [1..n -> StoreRows] : \A i, j \in 1..n : i # j => t[i] # t[j]}
           : n \in 0..MaxRows}


QueryPrefixes ==
    {<<>>, <<"n","a","m","e"," ","o","f"," ">>, <<"s","e","t","t","i","n","g"," ","n","a","m","e"," ","o","f"," ">>, <<"c","o","d","e"," ","f","o","r"," ">>,
     <<"w","h","a","t"," ","i","s"," ","t","h","e"," ","n","a","m","e"," ","o","f"," ","c","o","d","e"," ","f","o","r"," ">>}

QueryBodies == {<<"9","0","0","0">>, <<"6","2","1">>, <<"f","a","x">>, <<"n","e","t">>, <<"F","a","x"," ","A">>, <<"f","a","x","(">>}

Utterances ==
    {p \o b : p \in QueryPrefixes, b \in QueryBodies}
    \cup {<<"y","e","s">>, <<" ","O","K"," ">>, <<"s","h","o","w"," ","m","e">>, <<"n","o">>, <<"E","x","i","t"," ">>, <<"h","i">>, <<"t","h","i","s">>,
          <<"x">>, <<"o","k"," ","f","a","x">>, <<"w","h","a","t"," ","i","s"," ","t","h","e"," ","c","o","d","e"," ","9","0","0","0">>}

\* the confirmation a user answers an offer with
FollowUps == {<<"y","e","s">>}

\* the messages of the first conversation user_model.py seeds
SeededTurns ==
    <<Message("user", <<"G","i","v","e"," ","t","h","e"," ","0","8"," ","c","o","d","e"," ","o","f"," ","N","W","-","6","2","1">>),
      Message("assistant", <<"D","e","t","a","i","l","s"," ","f","o","r"," ","C","o","d","e",":"," ","N","W","-","6","2","1","."," ","A","c","c","e","s","s"," ","C","o","d","e",":"," ","N","W","-","6","2","1","."," ","S","e","t","t","i","n","g"," ","I","t","e","m"," ","N","a","m","e",":"," ","N","e","t","w","o","r","k"," ","P","r","o","t","o","c","o","l"," ","f","o","r"," ","6","2","1",".">>)>>

\* a conversation whose last turn offers the sub codes of code 621
OfferTurns ==
    <<Message("user", <<"c","o","d","e"," ","f","o","r"," ","n","e","t">>),
      Message("assistant", <<"D","o"," ","y","o","u"," ","w","a","n","t"," ","t","o"," ","k","n","o","w"," ","t","h","e"," ","s","u","b"," ","c","o","d","e"," ","f","o","r"," ","t","h","a","t","?"," ","(","C","o","d","e",":"," ","6","2","1",")">>)>>

Histories == {<<>>, SeededTurns, OfferTurns}

-----------------------------------------------------------------------------
(* Knowledge base files: init_db_from_excel and load_database              *)

\* a spreadsheet: readable is whether pd.read_excel parses the file, columns
\* whether it holds the four columns the engine names, rows its cells as text
Sheet(rows) == [exists |-> TRUE, readable |-> TRUE, columns |-> TRUE, rows |-> rows]

SheetWithoutColumns ==
    [exists |-> TRUE, readable |-> TRUE, columns |-> FALSE, rows |-> <<>>]

NoTable == [exists |-> FALSE, readable |-> FALSE, columns |-> FALSE, rows |-> <<>>]

\* init_db_from_excel: the table after it ran on the active file; a file that
\* is missing or cannot be read leaves the table as it is
init_db_from_excel(file, table) ==
    IF file.exists /\ file.readable THEN file ELSE table

\* lines 59-62: the columns as the engine keeps them
CleanRow(r) ==
    [code |-> clean_to_digits(r.code),
     name |-> IF r.name = NaN THEN <<"n","a","n">> ELSE Strip(r.name),
     sub |-> IF r.sub = NaN THEN <<"-">> ELSE Strip(r.sub),
     desc |-> IF r.desc = NaN THEN <<"N","o"," ","d","a","t","a">> ELSE Strip(r.desc)]

\* load_database on an existing database file: the cleaned frame, or
\* pd.DataFrame() when the table is missing or lacks a column
load_database(table) ==
    IF table.exists /\ table.columns
    THEN Frame([i \in 1..Len(table.rows) |-> CleanRow(table.rows[i])])
    ELSE EmptyFrame

\* the spreadsheet the server starts with
SheetA ==
    Sheet(<<Row(<<"9","0","0","0",".","0">>, <<"F","a","x"," ","A"," ">>, NaN, <<"0",":"," ","o","f","f"," ","1",":"," ","o","n">>),
            Row(<<"1","0","0","0",".","0">>, <<"F","a","x"," ","B">>, <<"1">>, NaN)>>)

\* the spreadsheets an administrator uploads
SheetB ==
    Sheet(<<Row(<<"3","0","0">>, <<"N","e","t">>, <<"-">>, <<"N","o"," ","d","a","t","a">>),
            Row(<<"6","2","1">>, <<"F","a","x"," ","C">>, <<"-">>, <<"N","o"," ","d","a","t","a">>)>>)

Uploads == {SheetB, SheetWithoutColumns}

-----------------------------------------------------------------------------
(* Conversation storage of user_model.py, for the user who is logged in    *)

Conversation(id, title, messages) == [id |-> id, title |-> title, messages |-> messages]

\* CONVERSATIONS[1] after lines 48-67
SeededConversations ==
    <<Conversation(1, <<"N","W","-","6","2","1"," ","S","e","a","r","c","h">>, SeededTurns),
      Conversation(2, <<"L","o","g","g","i","n","g"," ","C","o","n","f","i","g","u","r","a","t","i","o","n">>,
                   <<Message("user", <<"H","o","w"," ","d","o"," ","I"," ","c","h","a","n","g","e"," ","t","h","e"," ","l","o","g","g","i","n","g"," ","l","e","v","e","l","?">>),
                     Message("assistant", <<"T","o"," ","c","h","a","n","g","e"," ","t","h","e"," ","l","o","g","g","i","n","g"," ","l","e","v","e","l",","," ","u","s","e"," ","A","c","c","e","s","s"," ","C","o","d","e"," ","P","R","-","4","0","1",".">>)>>)>>

\* conversation_id_counter after the two seeded conversations were built
FirstFreeId == 5

\* get_conversation_by_id: <<>> for None, else <<index of the first match>>
ConversationIndex(convs, conv_id) ==
    LET hits == {i \in 1..Len(convs) : convs[i].id = conv_id}
    IN  IF hits = {} THEN <<>> ELSE <<CHOOSE i \in hits : \A j \in hits : i <= j>>

\* conv.messages.append(Message(role, content)) on the conversation at index k
AppendMessage(convs, k, role, content) ==
    [convs EXCEPT ![k].messages = Append(@, Message(role, content))]

-----------------------------------------------------------------------------
(* The requests of chat_submit, run by worker threads                      *)

\* the worker threads of the server
NumWorkers == 2

\* the assignments of df by upload_kb and revert_kb in one run
MaxReplacements == 2

Workers == 1..NumWorkers

\* the form field prompt
RawPrompts == {<<" ","f","a","x">>, <<" ">>}

\* the form field conv_id; <<>> is the field left out
RawConvIds == {<<>>, <<"1">>, <<"9">>, <<"0">>, <<"x">>}

\* str.isdigit
IsDigit(s) == s # <<>> /\ \A i \in 1..Len(s) : s[i] \in Digits

\* int(s) for a string of digits
RECURSIVE ToInt(_)
ToInt(s) ==
    IF s = <<>> THEN 0
    ELSE 10 * ToInt(SubSeq(s, 1, Len(s) - 1)) + (Ord(s[Len(s)]) - Ord("0"))

\* line 148; None is 0, which the tests of lines 156 and 166 treat alike
ParseConvId(raw) == IF IsDigit(raw) THEN ToInt(raw) ELSE 0

\* prompt[:30]
Title(prompt) == SubSeq(prompt, 1, IF Len(prompt) < 30 THEN Len(prompt) ELSE 30)

\* no call of find_best_answer has returned yet
NoAnswer == Returned(FALSE, EmptyDict, "NONE", <<>>, 0)

Idle ==
    [pc |-> "idle", prompt |-> <<>>, conv_id |-> 0, history |-> <<>>, seen |-> <<>>,
     answer |-> NoAnswer, pending |-> <<>>, full_resp |-> <<>>, events |-> <<>>,
     new_id |-> 0, loaded |-> 0]

\* the frames a call has loaded, followed by the last of them up to five
Padded(seen) == [i \in 1..5 |-> IF i <= Len(seen) THEN seen[i] ELSE seen[Len(seen)]]

-----------------------------------------------------------------------------
(* The pipeline of one conversation, a turn at a time: find_best_answer,   *)
(* generate_ai_response, and the turn stored as the history of the next.   *)

\* the spreadsheets the server may start with: every table, and a sheet
\* that lacks the columns
Sheets == {Sheet(t) : t \in Tables} \cup {SheetWithoutColumns}

\* the backups, the conversations and the requests when the server starts
AppAtRest ==
    /\ backups = {}
    /\ replacements = 0
    /\ CONVERSATIONS = SeededConversations
    /\ conversation_id_counter = FirstFreeId
    /\ req = [t \in Workers |-> Idle]

Init ==
    /\ kb_file \in Sheets
    /\ db_table = init_db_from_excel(kb_file, NoTable)
    /\ df = load_database(db_table)
    /\ user_prompt \in Utterances
    /\ history \in Histories
    /\ pc = "resolve"
    /\ intent = "NONE"
    /\ answer = NoAnswer
    /\ prev = NoAnswer
    /\ chunks = <<>>
    /\ turn = 1
    /\ AppAtRest

appVars == <<kb_file, db_table, backups, replacements, CONVERSATIONS, conversation_id_counter, req>>

\* chat_submit.generate, lines 154 and 161; an exception ends the request
FindBestAnswer ==
    /\ pc = "resolve"
    /\ intent' = detect_intent(user_prompt)
    /\ answer' = find_best_answer(df, user_prompt, history)
    /\ pc' = IF answer'.raised THEN "failed" ELSE "render"
    /\ UNCHANGED <<df, user_prompt, history, prev, chunks, turn, appVars>>

\* chat_submit.generate, lines 162-164
GenerateAiResponse ==
    /\ pc = "render"
    /\ chunks' = generate_ai_response(user_prompt, answer.data, answer.status)
    /\ pc' = "done"
    /\ UNCHANGED <<df, user_prompt, history, intent, answer, prev, turn, appVars>>

\* lines 166-167 and the next request of the conversation, a confirmation
NextTurn ==
    /\ pc = "done"
    /\ turn < MaxTurns
    /\ history' = history \o <<Message("user", user_prompt),
                                Message("assistant", Concat(chunks))>>
    /\ user_prompt' \in FollowUps
    /\ turn' = turn + 1
    /\ pc' = "resolve"
    /\ intent' = "NONE"
    /\ prev' = answer
    /\ answer' = NoAnswer
    /\ chunks' = <<>>
    /\ UNCHANGED <<df, appVars>>

Next == FindBestAnswer \/ GenerateAiResponse \/ NextTurn

Spec == Init /\ [][Next]_vars

-----------------------------------------------------------------------------
(* The server: requests on worker threads beside upload_kb and revert_kb   *)

AppInit ==
    /\ kb_file = SheetA
    /\ db_table = init_db_from_excel(SheetA, NoTable)
    /\ df = load_database(db_table)
    /\ AppAtRest
    /\ user_prompt = <<>>
    /\ history = <<>>
    /\ pc = "app"
    /\ intent = "NONE"
    /\ answer = NoAnswer
    /\ prev = NoAnswer
    /\ chunks = <<>>
    /\ turn = 0

pipelineVars == <<user_prompt, history, pc, intent, answer, prev, chunks, turn>>

storeVars == <<df, kb_file, db_table, backups, replacements>>

\* upload_kb, lines 111-118: the active file is backed up and replaced, the
\* table rebuilt and df assigned
UploadKb(file) ==
    /\ replacements < MaxReplacements
    /\ backups' = IF kb_file.exists THEN backups \cup {kb_file} ELSE backups
    /\ kb_file' = file
    /\ db_table' = init_db_from_excel(file, db_table)
    /\ df' = load_database(db_table')
    /\ replacements' = replacements + 1
    /\ UNCHANGED <<pipelineVars, CONVERSATIONS, conversation_id_counter, req>>

\* revert_kb, lines 131-135
RevertKb(file) ==
    /\ replacements < MaxReplacements
    /\ file \in backups
    /\ kb_file' = file
    /\ db_table' = init_db_from_excel(file, db_table)
    /\ df' = load_database(db_table')
    /\ replacements' = replacements + 1
    /\ UNCHANGED <<pipelineVars, backups, CONVERSATIONS, conversation_id_counter, req>>

\* chat_submit, lines 146-159: an empty prompt is answered 400; else the
\* stream starts and reads the turns of the conversation conv_id names
ChatSubmit(t, raw_prompt, raw_conv_id) ==
    /\ req[t].pc = "idle"
    /\ Strip(raw_prompt) # <<>>
    /\ LET conv_id == ParseConvId(raw_conv_id)
           found == ConversationIndex(CONVERSATIONS, conv_id)
       IN  req' = [req EXCEPT ![t] =
                      [Idle EXCEPT !.pc = "resolve",
                                   !.prompt = Strip(raw_prompt),
                                   !.conv_id = conv_id,
                                   !.history = IF conv_id # 0 /\ found # <<>>
                                               THEN CONVERSATIONS[found[1]].messages
                                               ELSE <<>>]]
    /\ UNCHANGED <<pipelineVars, storeVars, CONVERSATIONS, conversation_id_counter>>

\* generate, line 161: find_best_answer up to and with its next load of the
\* global df.  The load of line 83 is followed by the two loads of each
\* filter, df[df[col] == x]: the frame that is indexed, then the frame the
\* mask is computed from.  The call ends when it needs no later load.
LoadDf(t) ==
    /\ req[t].pc = "resolve"
    /\ \E seen \in {Append(req[t].seen, df)} :
       \E result \in {IF Len(seen) % 2 = 1
                      THEN Resolve(Padded(seen), req[t].prompt, req[t].history)
                      ELSE NoAnswer} :
       \E ends \in {Len(seen) % 2 = 1 /\ result.reads <= Len(seen)} :
           req' = [req EXCEPT
                     ![t].seen = seen,
                     ![t].answer = IF ends THEN result ELSE NoAnswer,
                     ![t].pending =
                         IF ends /\ ~result.raised
                         THEN generate_ai_response(req[t].prompt, result.data,
                                                   result.status)
                         ELSE <<>>,
                     ![t].pc = IF ~ends THEN "resolve"
                               ELSE IF result.raised THEN "failed"
                               ELSE "render"]
    /\ UNCHANGED <<pipelineVars, storeVars, CONVERSATIONS, conversation_id_counter>>

\* generate, lines 162-164: the next chunk is added to full_resp and sent;
\* the frames and the result of the call are used no more
EmitChunk(t) ==
    /\ req[t].pc = "render"
    /\ req[t].pending # <<>>
    /\ req' = [req EXCEPT
                 ![t].seen = <<>>,
                 ![t].answer = NoAnswer,
                 ![t].full_resp = @ \o Head(req[t].pending),
                 ![t].events = Append(@, [chunk |-> Head(req[t].pending), conv_id |-> 0]),
                 ![t].pending = Tail(@),
                 ![t].pc = IF Tail(req[t].pending) = <<>> THEN "persist" ELSE "render"]
    /\ UNCHANGED <<pipelineVars, storeVars, CONVERSATIONS, conversation_id_counter>>

\* append_to_conversation, lines 132-134: the conversation is looked up and
\* the user's message appended; an unknown id returns False, which generate
\* drops
AppendUserMessage(t) ==
    /\ req[t].pc = "persist"
    /\ req[t].conv_id # 0
    /\ LET found == ConversationIndex(CONVERSATIONS, req[t].conv_id)
       IN  IF found = <<>>
           THEN /\ req' = [req EXCEPT ![t].pc = "done"]
                /\ UNCHANGED CONVERSATIONS
           ELSE /\ CONVERSATIONS' =
                       AppendMessage(CONVERSATIONS, found[1], "user", req[t].prompt)
                /\ req' = [req EXCEPT ![t].pc = "append_assistant"]
    /\ UNCHANGED <<pipelineVars, storeVars, conversation_id_counter>>

\* append_to_conversation, lines 135-136
AppendAssistantMessage(t) ==
    /\ req[t].pc = "append_assistant"
    /\ LET found == ConversationIndex(CONVERSATIONS, req[t].conv_id)
       IN  CONVERSATIONS' =
               AppendMessage(CONVERSATIONS, found[1], "assistant", req[t].full_resp)
    /\ req' = [req EXCEPT ![t].pc = "done"]
    /\ UNCHANGED <<pipelineVars, storeVars, conversation_id_counter>>

\* Conversation.__init__, line 33: self.id = conversation_id_counter
TakeConversationId(t) ==
    /\ req[t].pc = "persist"
    /\ req[t].conv_id = 0
    /\ req' = [req EXCEPT ![t].pc = "load_counter", ![t].new_id = conversation_id_counter]
    /\ UNCHANGED <<pipelineVars, storeVars, CONVERSATIONS, conversation_id_counter>>

\* line 34, conversation_id_counter += 1: the load
LoadCounter(t) ==
    /\ req[t].pc = "load_counter"
    /\ req' = [req EXCEPT ![t].pc = "store_counter", ![t].loaded = conversation_id_counter]
    /\ UNCHANGED <<pipelineVars, storeVars, CONVERSATIONS, conversation_id_counter>>

\* line 34, conversation_id_counter += 1: the store
StoreCounter(t) ==
    /\ req[t].pc = "store_counter"
    /\ conversation_id_counter' = req[t].loaded + 1
    /\ req' = [req EXCEPT ![t].pc = "insert"]
    /\ UNCHANGED <<pipelineVars, storeVars, CONVERSATIONS>>

\* add_new_conversation, lines 118-128, and generate, line 170: the new
\* conversation is put first and its id sent
InsertConversation(t) ==
    /\ req[t].pc = "insert"
    /\ CONVERSATIONS' =
           <<Conversation(req[t].new_id, Title(req[t].prompt),
                          <<Message("user", req[t].prompt),
                            Message("assistant", req[t].full_resp)>>)>>
           \o CONVERSATIONS
    /\ req' = [req EXCEPT
                 ![t].pc = "done",
                 ![t].events = Append(@, [chunk |-> <<>>, conv_id |-> req[t].new_id])]
    /\ UNCHANGED <<pipelineVars, storeVars, conversation_id_counter>>

AppNext ==
    \/ \E file \in Uploads : UploadKb(file)
    \/ \E file \in backups : RevertKb(file)
    \/ \E t \in Workers, p \in RawPrompts, c \in RawConvIds : ChatSubmit(t, p, c)
    \/ \E t \in Workers : LoadDf(t)
    \/ \E t \in Workers : EmitChunk(t)
    \/ \E t \in Workers : AppendUserMessage(t)
    \/ \E t \in Workers : AppendAssistantMessage(t)
    \/ \E t \in Workers : TakeConversationId(t)
    \/ \E t \in Workers : LoadCounter(t)
    \/ \E t \in Workers : StoreCounter(t)
    \/ \E t \in Workers : InsertConversation(t)

SpecApp == AppInit /\ [][AppNext]_vars

-----------------------------------------------------------------------------
(* Properties of the pipeline *)

\* find_best_answer has been called for user_prompt and history on df
Resolved == pc \in {"render", "done", "failed"}

LastTurn == history[Len(history)].content

\* the last turn holds neither the sub-code-offer marker nor a procedure-offer
\* marker, or there is no turn
NoOfferPending ==
    \/ history = <<>>
    \/ /\ ~Contains(LastTurn, SubCodeOfferMarker)
       /\ ~Contains(LastTurn, ProcedureOfferMarker)
       /\ ~Contains(LastTurn, Bulb)

\* the (NONE, NONE) result: descriptor "{}", status "NONE", no filter of df
IsNoOp ==
    /\ ~answer.raised
    /\ answer.data = EmptyDict
    /\ answer.status = "NONE"
    /\ answer.searches = 0

\* C1, as claimed: a CONFIRMATION utterance, with an empty history or a last
\* turn that holds no offer marker, resolves to ("{}", "NONE") and runs no
\* record search, whatever the record table.
C1_ConfirmationNoOp ==
    (Resolved /\ intent = "CONFIRMATION" /\ NoOfferPending) => IsNoOp

\* C1, amended: on a record table that is not empty, a CONFIRMATION
\* utterance, with an empty history or a last turn that holds no offer marker,
\* resolves to ("{}", "NONE") and runs no record search.
C1_ConfirmationNoOpOnLoadedStore ==
    (Resolved /\ intent = "CONFIRMATION" /\ NoOfferPending /\ ~IsEmpty(df))
        => IsNoOp

\* a confirmation after a stored turn without offer was a no-op
C1_Witness ==
    /\ pc = "done"
    /\ intent = "CONFIRMATION"
    /\ history # <<>>
    /\ NoOfferPending
    /\ ~IsEmpty(df)
    /\ IsNoOp

CodeTag(code) == <<"(","C","o","d","e",":"," ">> \o code \o <<")">>

\* C2: the text rendered for a NAME_ONLY descriptor holds "(Code: <code>)",
\* and "yes" with that text as the last turn resolves to SUB_TABLE with the
\* same code and status READY.
C2_NameOnlyRoundTrip ==
    (/\ Resolved
     /\ turn > 1
     /\ prev.data.mode = "NAME_ONLY"
     /\ user_prompt = <<"y","e","s">>)
        => /\ Contains(LastTurn, CodeTag(prev.data.code))
           /\ ~answer.raised
           /\ answer.data.mode = "SUB_TABLE"
           /\ answer.data.code = prev.data.code
           /\ answer.status = "READY"

SearchIntents == {"TECHNICAL", "NAME_QUERY", "CODE_QUERY"}

\* the number of distinct codes the rows hold
NumCodes(rows) == Cardinality({rows[i].code : i \in 1..Len(rows)})

\* the mode named for n distinct codes
ShapeFor(n) ==
    IF n = 0 THEN "NOT_FOUND"
    ELSE IF n = 1 THEN "SINGLE"
    ELSE IF n = 2 THEN "COMPARE"
    ELSE "LIST"

ShapedByCodes ==
    /\ ~answer.raised
    /\ answer.data.mode = ShapeFor(NumCodes(answer.rows))
    /\ answer.status = IF answer.rows = <<>> THEN "DATA_MISSING" ELSE "READY"

\* C3, as claimed: on a table that is not empty every TECHNICAL, NAME_QUERY
\* or CODE_QUERY utterance resolves to SINGLE, COMPARE, LIST or
\* NOT_FOUND/DATA_MISSING as the matched rows hold one, two, three or more,
\* or no codes.
C3_ShapeByCodes ==
    (Resolved /\ intent \in SearchIntents /\ ~IsEmpty(df)) => ShapedByCodes

\* the utterance's search term and its first digit token, as line 121 and 128
Term == SearchTerm(Strip(Lower(user_prompt)))

\* the search was cut short with NAME_ONLY: a NAME_QUERY whose digit token
\* matched rows, or a CODE_QUERY without digit token whose name search did
ShortCircuits ==
    /\ answer.rows # <<>>
    /\ \/ intent = "NAME_QUERY" /\ FindCodes(Term, 1) # <<>>
       \/ intent = "CODE_QUERY" /\ FindCodes(Term, 1) = <<>>

\* C3, amended: on a table that is not empty, a TECHNICAL, NAME_QUERY or
\* CODE_QUERY utterance whose search term is shorter than two characters or
\* is "ok" resolves to ("{}", "NONE") without a search; a call raises only
\* in the substring search of a term that is no regular expression; a
\* NAME_QUERY whose digit token matches rows and a CODE_QUERY without digit
\* token whose name search matches rows resolve to NAME_ONLY; every other
\* search resolves to SINGLE, COMPARE, LIST or NOT_FOUND/DATA_MISSING as the
\* matched rows hold one, two, three or more, or no codes.
C3_ShapeByCodesOfFullSearch ==
    (Resolved /\ intent \in SearchIntents /\ ~IsEmpty(df))
        => IF Len(Term) < 2 \/ Term = <<"o","k">> THEN IsNoOp
           ELSE IF answer.raised
           THEN ~RegexCompiles(Term) /\ FindCodes(Term, 1) = <<>>
           ELSE IF ShortCircuits
           THEN answer.data.mode = "NAME_ONLY" /\ answer.status = "READY"
           ELSE ShapedByCodes /\ answer.searches > 0

\* a name search that matched two codes was answered with COMPARE
C3_Witness ==
    /\ Resolved
    /\ intent = "NAME_QUERY"
    /\ ~ShortCircuits
    /\ NumCodes(answer.rows) = 2
    /\ answer.data.mode = "COMPARE"

\* C4: an utterance that is just the code of a record is TECHNICAL, its
\* digits are the token extracted, and the answer is SINGLE for that code
\* with status READY.
C4_BareCodeLookup ==
    (/\ Resolved
     /\ turn = 1
     /\ user_prompt # <<>>
     /\ \E i \in 1..Len(df.rows) : df.rows[i].code = user_prompt)
        => /\ intent = "TECHNICAL"
           /\ FindCodes(Term, 1) = <<user_prompt>>
           /\ ~answer.raised
           /\ answer.data.mode = "SINGLE"
           /\ answer.data.code = user_prompt
           /\ answer.status = "READY"

\* C5: on an empty record table every call returns status DATA_MISSING and
\* does not raise, and for status DATA_MISSING the renderer emits the fixed
\* "couldn't find" message alone, whatever the descriptor.
C5_EmptyStore ==
    /\ (Resolved /\ IsEmpty(df))
           => ~answer.raised /\ answer.status = "DATA_MISSING"
    /\ (pc = "done" /\ answer.status = "DATA_MISSING")
           => chunks = <<CouldntFindMessage>>

\* a confirmation after an offer, on a frame without columns, was answered
\* with the fixed message
C5_Witness ==
    /\ pc = "done"
    /\ df = EmptyFrame
    /\ history = OfferTurns
    /\ intent = "CONFIRMATION"
    /\ chunks = <<CouldntFindMessage>>

Intents ==
    {"CONFIRMATION", "EXIT", "NAME_QUERY", "CODE_QUERY", "CONVERSATIONAL", "TECHNICAL"}

\* C6: the intent is one of the six, and it is the one of the first rule the
\* lowercased, trimmed text satisfies: membership for CONFIRMATION and EXIT,
\* containment of a phrase for NAME_QUERY, CODE_QUERY and CONVERSATIONAL,
\* TECHNICAL otherwise; so "ok" is CONFIRMATION and a text with a name-query
\* and a code-query phrase is NAME_QUERY.
C6_IntentByFirstRule ==
    Resolved =>
        LET clean == Strip(Lower(user_prompt))
            r1 == clean \in ConfirmationWords
            r2 == clean \in ExitWords
            r3 == \E p \in NameQueryPhrases : Contains(clean, p)
            r4 == \E p \in CodeQueryPhrases : Contains(clean, p)
            r5 == \E p \in ConversationalWords : Contains(clean, p)
        IN  /\ intent \in Intents
            /\ intent = "CONFIRMATION" <=> r1
            /\ intent = "EXIT" <=> ~r1 /\ r2
            /\ intent = "NAME_QUERY" <=> ~r1 /\ ~r2 /\ r3
            /\ intent = "CODE_QUERY" <=> ~r1 /\ ~r2 /\ ~r3 /\ r4
            /\ intent = "CONVERSATIONAL" <=> ~r1 /\ ~r2 /\ ~r3 /\ ~r4 /\ r5
            /\ intent = "TECHNICAL" <=> ~r1 /\ ~r2 /\ ~r3 /\ ~r4 /\ ~r5
            /\ clean = <<"o","k">> => intent = "CONFIRMATION"
            /\ r3 /\ r4 => intent = "NAME_QUERY"

\* a text with a name-query and a code-query phrase was classified
C6_Witness ==
    /\ Resolved
    /\ Contains(Lower(user_prompt), <<"n","a","m","e"," ","o","f">>)
    /\ Contains(Lower(user_prompt), <<"c","o","d","e"," ","f","o","r">>)
    /\ intent = "NAME_QUERY"

\* C9: on a table that loaded, find_best_answer returns a pair for every
\* utterance and history; it never raises.
C9_ResolutionTotal == Resolved => ~answer.raised /\ pc # "failed"

\* C10: the LIST table has one row for each distinct (code, name) pair of the
\* matched rows, in ascending order of the codes' digit strings.
C10_ListSortedByCode ==
    (Resolved /\ ~answer.raised /\ answer.data.mode = "LIST")
        => LET match_list == MatchList(answer.rows)
           IN  /\ answer.data.content = ListTable(match_list)
               /\ \A i, j \in 1..Len(match_list) :
                      i < j => ~StrLess(match_list[j].code, match_list[i].code)

\* what generate_ai_response rendered for the answer of the turn before: the
\* fixed message of a status, or the message of the descriptor's mode
LastRendering ==
    IF prev.status = "DATA_MISSING" THEN "COULDNT_FIND"
    ELSE IF prev.status = "SHOW_PROCEDURE" THEN "PROCEDURE"
    ELSE IF prev.data.mode \in {"EXIT", "NAME_ONLY", "SUB_TABLE", "SINGLE", "LIST", "COMPARE"}
    THEN prev.data.mode
    ELSE "GREETING"

\* the renderings that offer the 08 procedure
ProcedureOffers == {"SUB_TABLE", "SINGLE"}

\* the renderings that offer neither the sub codes nor the procedure
NoOffers == {"LIST", "COMPARE", "EXIT", "GREETING", "COULDNT_FIND", "PROCEDURE"}

\* C11: on a loaded table, a CONFIRMATION utterance that follows a rendered
\* turn of the conversation without sub-code offer resolves to status
\* SHOW_PROCEDURE exactly when that turn is the SUB_TABLE or the SINGLE
\* rendering, and it is a no-op, ("{}", "NONE") without a search, after the
\* LIST, COMPARE, EXIT, greeting, "couldn't find" and procedure renderings.
C11_ProcedureOfferFlow ==
    (/\ Resolved
     /\ turn > 1
     /\ intent = "CONFIRMATION"
     /\ LastTurn = Concat(generate_ai_response(history[Len(history) - 1].content,
                                               prev.data, prev.status))
     /\ LastRendering \in ProcedureOffers \cup NoOffers
     /\ ~IsEmpty(df))
        => /\ ~answer.raised
           /\ answer.status = "SHOW_PROCEDURE" <=> LastRendering \in ProcedureOffers
           /\ LastRendering \in NoOffers => IsNoOp

-----------------------------------------------------------------------------
(* Properties of the handlers *)

\* the chunks a request has sent, in order
SentChunks(t) ==
    LET sent == SelectSeq(req[t].events, LAMBDA e : e.conv_id = 0)
    IN  [i \in 1..Len(sent) |-> sent[i].chunk]

\* the conversation ids a request has sent
SentIds(t) == SelectSeq(req[t].events, LAMBDA e : e.conv_id # 0)

\* the conversation c holds the request's prompt and answer as a user turn
\* followed at once by an assistant turn
HoldsPair(c, t) ==
    \E i \in 1..(Len(c.messages) - 1) :
        /\ c.messages[i] = Message("user", req[t].prompt)
        /\ c.messages[i + 1] = Message("assistant", Concat(SentChunks(t)))

\* the turn of the request is stored where it belongs
Persisted(t) ==
    IF req[t].conv_id # 0
    THEN \E k \in 1..Len(CONVERSATIONS) :
             /\ CONVERSATIONS[k].id = req[t].conv_id
             /\ HoldsPair(CONVERSATIONS[k], t)
    ELSE /\ Len(SentIds(t)) = 1
         /\ \E k \in 1..Len(CONVERSATIONS) :
                /\ CONVERSATIONS[k].id = SentIds(t)[1].conv_id
                /\ HoldsPair(CONVERSATIONS[k], t)

\* C7: every chat_submit request with a prompt that is not empty, once its
\* stream has ended, has its prompt and the concatenation of its chunks
\* stored as a (user, assistant) pair: in the conversation conv_id names, or
\* in a new conversation whose id was sent.
C7_TurnSink ==
    \A t \in DOMAIN req : req[t].pc = "done" => Persisted(t)

\* C8: with upload_kb and revert_kb running beside the requests, the outcome
\* of every call of find_best_answer is the outcome of the call on one
\* single table among those it loaded from df.
C8_SingleSnapshot ==
    \A t \in DOMAIN req :
        (req[t].seen # <<>> /\ req[t].pc # "resolve")
            => \E i \in 1..Len(req[t].seen) :
                   req[t].answer =
                       find_best_answer(req[t].seen[i], req[t].prompt, req[t].history)


\* the turns are (user, assistant) pairs, one after the other
Alternates(messages) ==
    /\ Len(messages) % 2 = 0
    /\ \A i \in 1..Len(messages) :
           messages[i].role = IF i % 2 = 1 THEN "user" ELSE "assistant"

\* no request is under way
Quiescent == \A t \in DOMAIN req : req[t].pc \in {"idle", "done", "failed"}

\* C12: when the chat_submit requests have ended, also those that ran at the
\* same time on one conversation, every stored conversation is a sequence of
\* (user, assistant) pairs; and the last turn of every history a request
\* has read that is not empty is an assistant turn.
C12_HistoryAlternates ==
    /\ Quiescent =>
           \A k \in 1..Len(CONVERSATIONS) : Alternates(CONVERSATIONS[k].messages)
    /\ \A t \in DOMAIN req :
           req[t].history # <<>>
               => req[t].history[Len(req[t].history)].role = "assistant"
=============================================================================
